---- MODULE Spec2Model ----
(***************************************************************************)
(* Model of packages/core/src/DirectoryLoader.ts: the registry kept by a   *)
(* DirectoryLoader (known, types, nodeTypes, credentialTypes, loadedNodes, *)
(* nodesByCredential, isLazyLoaded) and the operations reset() and         *)
(* loadAll() of CustomDirectoryLoader, PackageDirectoryLoader and          *)
(* LazyPackageDirectoryLoader.                                             *)
(*                                                                         *)
(* JavaScript values are represented as follows.  An optional value        *)
(* (possibly undefined) is a sequence of length at most one: None is       *)
(* undefined, Some(v) is v.  An object used as a dictionary is a function  *)
(* whose domain is its set of keys.  An array is a sequence.  Strings are  *)
(* strings, concatenated with \o as the code concatenates them.            *)
(***************************************************************************)
EXTENDS Integers, Sequences, FiniteSets, TLC

VARIABLES
    loaderClass,        \* which subclass was constructed
    packageName,        \* DirectoryLoader.packageName
    packageJson,        \* PackageDirectoryLoader.packageJson (None for the custom loader)
    globResult,         \* what glob() finds under the directory (custom loader)
    includeNodes,       \* constructor argument
    excludeNodes,       \* constructor argument
    brokenArtifact,     \* the manifest artifact (1..4) that is missing or not JSON whenever
                        \* the package's build output is incomplete; 0 for the loaders
                        \* that read no artifact
    isLazyLoaded,
    loadedNodes,
    nodeTypes,
    credentialTypes,
    known,
    types,
    nodesByCredential,
    aliased,            \* credentials c whose known.credentials[c].supportedNodes is the
                        \* very array object nodesByCredential[c] (line 194 stores a reference)
    log                 \* the calls made on the loader so far, with what each one did

config == <<loaderClass, packageName, packageJson, globResult, includeNodes, excludeNodes,
            brokenArtifact>>
registry == <<isLazyLoaded, loadedNodes, nodeTypes, credentialTypes, known, types,
              nodesByCredential, aliased>>
vars == <<config, registry, log>>

\* ------------------------------------------------------------------ bounds
MaxNodeFiles == 2
MaxCredentialFiles == 2
MaxCalls == 3

\* ------------------------------------------------------- JavaScript values
None == <<>>
Some(v) == <<v>>
Value(o) == o[1]

EmptyObject == [k \in {} |-> None]
HasKey(obj, k) == k \in DOMAIN obj
Put(obj, k, v) == [x \in DOMAIN obj \cup {k} |-> IF x = k THEN v ELSE obj[x]]

Includes(arr, v) == \E i \in 1..Len(arr) : arr[i] = v
Last(arr) == arr[Len(arr)]
Reverse(arr) == [i \in 1..Len(arr) |-> arr[Len(arr) + 1 - i]]

RECURSIVE Flatten(_)
Flatten(arrs) == IF arrs = <<>> THEN <<>> ELSE Head(arrs) \o Flatten(Tail(arrs))

Least(s) == CHOOSE x \in s : \A y \in s : x <= y
Greatest(s) == CHOOSE x \in s : \A y \in s : x >= y

\* the elements of arr at the indices idx, in ascending index order
RECURSIVE Pick(_, _)
Pick(arr, idx) ==
    IF idx = {} THEN <<>> ELSE <<arr[Least(idx)]>> \o Pick(arr, idx \ {Least(idx)})

\* lodash uniqBy, keys[i] being the key of arr[i]: keeps the first element of
\* each key, in order
uniqBy(arr, keys) ==
    Pick(arr, {i \in 1..Len(arr) : \A j \in 1..(i - 1) : keys[j] # keys[i]})

\* Object.values of an object with integer keys: ascending key order
ObjectValues(obj) == Pick(obj, DOMAIN obj)

\* ------------------------------------------------------------ constants
CUSTOM_NODES_CATEGORY == "Custom Nodes"
CUSTOM == "CUSTOM"
FILE_MARKER == "file:"

NoError == "none"
ClassNotFound == "Class could not be found. Please check if the class is named correctly."
ExecuteSingleRemoved == "\"executeSingle\" has been removed. Please update the code of this node to use \"execute\" instead."
ResolverFailure == "resolver failure"

\* ------------------------------------------------- components on disk
\* description.version is a number or an array of numbers
Num(n) == [isArray |-> FALSE, values |-> <<n>>]
Arr(ns) == [isArray |-> TRUE, values |-> ns]

\* an icon is a string or a {light, dark} pair
Icon(s) == [themed |-> FALSE, value |-> s]
Themed(l, d) == [themed |-> TRUE, light |-> l, dark |-> d]

Resources == [primaryDocumentation |-> <<"https://docs/primary">>,
              credentialDocumentation |-> <<"https://docs/credential">>]
CodexOf(categories) ==
    [categories |-> categories, subcategories |-> None, alias |-> None,
     resources |-> Some(Resources)]

Description(name, version, credentials, icon, codex) ==
    [name |-> name, version |-> version, credentials |-> credentials, icon |-> icon,
     iconUrl |-> None, codex |-> codex, loadOptionsMethods |-> None]

\* an INodeType instance
NodeType(className, description, executeSingle, loadOptions) ==
    [className |-> className, description |-> description, versioned |-> FALSE,
     nodeVersions |-> EmptyObject, currentVersion |-> 0,
     executeSingle |-> executeSingle, loadOptions |-> loadOptions]

\* an IVersionedNodeType instance
VersionedNodeType(className, description, nodeVersions, currentVersion) ==
    [className |-> className, description |-> description, versioned |-> TRUE,
     nodeVersions |-> nodeVersions, currentVersion |-> currentVersion,
     executeSingle |-> FALSE, loadOptions |-> None]

\* an ICredentialType instance
CredentialType(className, name, extends, icon) ==
    [className |-> className, name |-> name, extends |-> extends, icon |-> icon,
     iconUrl |-> None]

Node1 == NodeType("Node1",
    Description("node1", Num(1), Some(<<"credential1">>), Some(Icon("file:node1.svg")), None),
    FALSE, None)
Node2 == NodeType("Node2",
    Description("node2", Arr(<<1, 2>>), None,
                Some(Themed("file:node2.svg", "file:node2.dark.svg")), None),
    FALSE, Some(<<"getOptions">>))
Node3V1 == NodeType("Node3V1",
    Description("node3", Num(1), Some(<<"credential1">>), Some(Icon("file:node3.svg")), None),
    TRUE, None)
Node3V2 == NodeType("Node3V2",
    Description("node3", Num(2), Some(<<"credential1", "credential2">>),
                Some(Themed("file:node3.svg", "fa:moon")), None),
    FALSE, Some(<<"getModels">>))
Node3 == VersionedNodeType("Node3",
    Description("node3", Arr(<<1, 2>>), None, Some(Icon("fa:code")),
                Some(CodexOf(Some(<<"AI">>)))),
    (1 :> Node3V1) @@ (2 :> Node3V2), 2)
Node4V1 == NodeType("Node4V1",
    Description("node4", Num(1), Some(<<"credential2">>), None, None), FALSE, None)
Node4V2 == NodeType("Node4V2",
    Description("node4", Num(2), Some(<<"credential2">>), None, None), TRUE, None)
Node4 == VersionedNodeType("Node4",
    Description("node4", Arr(<<1, 2>>), None, None, None),
    (1 :> Node4V1) @@ (2 :> Node4V2), 2)
Credential1 == CredentialType("Credential1", "credential1", None, Some(Icon("file:credential1.svg")))
Credential2 == CredentialType("Credential2", "credential2", Some(<<"credential1">>), None)

\* What loadClassInIsolation(filePath, className) does for a file: returns a fresh
\* instance ("ok"), throws a TypeError (the symbol is not in the module) or throws
\* something else.  codexFile is the content of the sidecar <file>on, None when
\* module.require of it throws.
File(resolve, instance, codexFile) ==
    [resolve |-> resolve, instance |-> instance, codexFile |-> codexFile]

Node1Path == "dist/Node1/Node1.node.js"
Node2Path == "dist/Node2/Node2.node.js"
Node3Path == "dist/Node3/Node3.node.js"
Node4Path == "dist/Node4/Node4.node.js"
Node5Path == "dist/Node5/Node5.node.js"
Node6Path == "dist/Node6/Node6.node.js"
Credential1Path == "dist/Credential1.credentials.js"
Credential2Path == "dist/Credential2.credentials.js"
Credential3Path == "dist/Credential3.credentials.js"

FileSystem ==
    (Node1Path :> File("ok", Node1, None)) @@
    (Node2Path :> File("ok", Node2, Some(CodexOf(Some(<<"Development">>))))) @@
    (Node3Path :> File("ok", Node3, None)) @@
    (Node4Path :> File("ok", Node4, None)) @@
    (Node5Path :> File("TypeError", Node1, None)) @@
    (Node6Path :> File("Error", Node1, None)) @@
    (Credential1Path :> File("ok", Credential1, None)) @@
    (Credential2Path :> File("ok", Credential2, None)) @@
    (Credential3Path :> File("TypeError", Credential1, None))

\* the files a package descriptor or a directory scan lists in this model
NodePaths == {Node1Path, Node2Path, Node3Path, Node4Path}
CredentialPaths == {Credential1Path, Credential2Path}

\* ------------------------------------------------------ string helpers
StartsWith(str, prefix) == Len(str) >= Len(prefix) /\ SubSeq(str, 1, Len(prefix)) = prefix

\* positions at which sub occurs in str
Occurrences(str, sub) ==
    {i \in 1..(Len(str) - Len(sub) + 1) : SubSeq(str, i, i + Len(sub) - 1) = sub}

\* str without the characters from position i on / up to position i
Before(str, i) == SubSeq(str, 1, i - 1)
After(str, i) == SubSeq(str, i + 1, Len(str))

\* String.prototype.replace(sub, ''): removes the first occurrence only
RemoveFirst(str, sub) ==
    IF Occurrences(str, sub) = {} THEN str
    ELSE Before(str, Least(Occurrences(str, sub)))
         \o After(str, Least(Occurrences(str, sub)) + Len(sub) - 1)

\* str.split('.')[0]
BeforeFirstDot(str) ==
    IF Occurrences(str, ".") = {} THEN str ELSE Before(str, Least(Occurrences(str, ".")))

\* path.dirname and path.basename of a path that has a directory part
Dirname(filePath) == Before(filePath, Greatest(Occurrences(filePath, "/")))
Basename(filePath) == After(filePath, Greatest(Occurrences(filePath, "/")))

\* --------------------------------------------- icons (lines 305-329)
getIconPath(pkg, icon, filePath) ==
    "icons/" \o pkg \o "/" \o Dirname(filePath) \o "/" \o RemoveFirst(icon, FILE_MARKER)

\* a dual-tone icon is rewritten as soon as one side carries the file marker
fixIconPathsEitherSide(pkg, obj, filePath) ==
    IF obj.icon = None THEN obj
    ELSE IF ~Value(obj.icon).themed
         THEN IF StartsWith(Value(obj.icon).value, FILE_MARKER)
              THEN [obj EXCEPT
                      !.iconUrl = Some(Icon(getIconPath(pkg, Value(obj.icon).value, filePath))),
                      !.icon = None]
              ELSE obj
         ELSE IF \/ StartsWith(Value(obj.icon).light, FILE_MARKER)
                 \/ StartsWith(Value(obj.icon).dark, FILE_MARKER)
              THEN [obj EXCEPT
                      !.iconUrl = Some(Themed(getIconPath(pkg, Value(obj.icon).light, filePath),
                                              getIconPath(pkg, Value(obj.icon).dark, filePath))),
                      !.icon = None]
              ELSE obj

\* obj is a description or a credential: any record with icon and iconUrl
fixIconPaths(pkg, obj, filePath) ==
    IF obj.icon = None THEN obj
    ELSE IF ~Value(obj.icon).themed
         THEN IF Value(obj.icon).value = "" THEN obj
              ELSE IF StartsWith(Value(obj.icon).value, FILE_MARKER)
                   THEN [obj EXCEPT
                           !.iconUrl = Some(Icon(getIconPath(pkg, Value(obj.icon).value, filePath))),
                           !.icon = None]
                   ELSE obj
         ELSE IF /\ StartsWith(Value(obj.icon).light, FILE_MARKER)
                 /\ StartsWith(Value(obj.icon).dark, FILE_MARKER)
              THEN [obj EXCEPT
                      !.iconUrl = Some(Themed(getIconPath(pkg, Value(obj.icon).light, filePath),
                                              getIconPath(pkg, Value(obj.icon).dark, filePath))),
                      !.icon = None]
              ELSE obj

\* --------------------------------------------- codex (lines 243-297)
\* module.require(codexFilePath) throws, or the destructuring of resources does
getCodexThrows(codexFile) == codexFile = None \/ Value(codexFile).resources = None

\* lines 253-261, of the content of the codex file
getCodex(codex) ==
    [categories |-> codex.categories, subcategories |-> codex.subcategories,
     alias |-> codex.alias,
     resources |-> Some(
        [primaryDocumentation |-> Value(codex.resources).primaryDocumentation,
         credentialDocumentation |-> Value(codex.resources).credentialDocumentation])]

CustomOnlyCodex ==
    [categories |-> Some(<<CUSTOM_NODES_CATEGORY>>), subcategories |-> None, alias |-> None,
     resources |-> None]

\* lines 281-285
withCustomCategory(pkg, codex) ==
    IF pkg = CUSTOM
    THEN [codex EXCEPT !.categories =
            IF @ # None THEN Some(Value(@) \o <<CUSTOM_NODES_CATEGORY>>)
            ELSE Some(<<CUSTOM_NODES_CATEGORY>>)]
    ELSE codex

\* lines 268-297; codexFile is what module.require finds next to the node's file
addCodex(pkg, node, codexFile) ==
    IF pkg # CUSTOM /\ node.description.codex # None
    THEN node
    ELSE IF getCodexThrows(codexFile)
         THEN IF pkg = CUSTOM THEN [node EXCEPT !.description.codex = Some(CustomOnlyCodex)]
              ELSE node
         ELSE [node EXCEPT !.description.codex =
                  Some(withCustomCategory(pkg, getCodex(Value(codexFile))))]

\* lines 299-303
addLoadOptionsMethods(node) ==
    IF node.loadOptions # None
    THEN [node EXCEPT !.description.loadOptionsMethods = node.loadOptions]
    ELSE node

\* --------------------------------------------- versions (lines 205-237)
\* version.description.credentials ?? []
DeclaredCredentials(node) ==
    IF node.description.credentials = None THEN <<>> ELSE Value(node.description.credentials)

\* Object.values(nodeVersions).flatMap(version => version.description.credentials ?? [])
CredentialsOfVersions(versions) ==
    Flatten([i \in 1..Len(versions) |-> DeclaredCredentials(versions[i])])

\* uniqBy(..., 'name'): a credential is represented by its name
uniqByName(credentials) == uniqBy(credentials, credentials)

getCredentialsForNode(object) ==
    IF object.versioned
    THEN uniqByName(CredentialsOfVersions(ObjectValues(object.nodeVersions)))
    ELSE DeclaredCredentials(object)

\* version.join(',') of an array, version.toString() of a number: two versions
\* have the same string exactly when they list the same numbers
VersionKey(node) == node.description.version.values

uniqByVersion(nodes) == uniqBy(nodes, [i \in 1..Len(nodes) |-> VersionKey(nodes[i])])

\* the variants, each renamed and given the codex of the versioned node (line 225-226)
StampedVersions(object) ==
    [v \in DOMAIN object.nodeVersions |->
        [object.nodeVersions[v] EXCEPT !.description.name = object.description.name,
                                       !.description.codex = object.description.codex]]

getVersionedNodeTypeAll(object) ==
    IF object.versioned
    THEN uniqByVersion(Reverse(ObjectValues(StampedVersions(object))))
    ELSE <<object>>

\* ------------------------------------------------------------ the loader
CustomDirectoryLoader == "CustomDirectoryLoader"
PackageDirectoryLoader == "PackageDirectoryLoader"
LazyPackageDirectoryLoader == "LazyPackageDirectoryLoader"

TestingPackage == "n8n-nodes-testing"
PackageNames == {CUSTOM, TestingPackage}

\* the sequences without repetition over S, of length at most n
DistinctSeqs(S, n) ==
    {q \in UNION {[1..k -> S] : k \in 0..n} : \A i, j \in 1..Len(q) : q[i] = q[j] => i = j}

Listings ==
    [nodes : DistinctSeqs(NodePaths, MaxNodeFiles),
     credentials : DistinctSeqs(CredentialPaths, MaxCredentialFiles)]

NothingFound == [nodes |-> <<>>, credentials |-> <<>>]

PackageJsons ==
    {[name |-> TestingPackage, n8n |-> None],
     [name |-> TestingPackage, n8n |-> Some([nodes |-> None, credentials |-> None])]}
    \cup {[name |-> TestingPackage,
           n8n |-> Some([nodes |-> Some(l.nodes), credentials |-> Some(l.credentials)])] :
          l \in Listings}

\* filter lists hold fully-qualified names
FilteredNames == {"node1"}
FilterLists(pkg) == {<<>>} \cup {<<pkg \o "." \o n>> : n \in FilteredNames}

\* ------------------------------------- the registry of one loader object
\* st is the loader object during a call: its fields, the error thrown so far
\* (NoError while running), and the calls made to the collaborators:
\* resolved = the loadClassInIsolation calls, reads = the readFile calls.
Constructed ==
    [isLazyLoaded |-> FALSE,
     loadedNodes |-> <<>>,
     nodeTypes |-> EmptyObject,
     credentialTypes |-> EmptyObject,
     known |-> [nodes |-> EmptyObject, credentials |-> EmptyObject],
     types |-> [nodes |-> <<>>, credentials |-> <<>>],
     nodesByCredential |-> EmptyObject,
     aliased |-> {},
     error |-> NoError,
     resolved |-> <<>>,
     reads |-> <<>>]

\* reset that leaves loadedNodes as it is
resetKeepingLoadedNodes(st) ==
    [st EXCEPT !.nodeTypes = EmptyObject,
               !.credentialTypes = EmptyObject,
               !.known = [nodes |-> EmptyObject, credentials |-> EmptyObject],
               !.types = [nodes |-> <<>>, credentials |-> <<>>],
               !.aliased = {}]

\* lines 79-85: nodesByCredential and isLazyLoaded are not assigned
reset(st) ==
    [st EXCEPT !.loadedNodes = <<>>,
               !.nodeTypes = EmptyObject,
               !.credentialTypes = EmptyObject,
               !.known = [nodes |-> EmptyObject, credentials |-> EmptyObject],
               !.types = [nodes |-> <<>>, credentials |-> <<>>],
               !.aliased = {}]

\* lines 91-104: the class name is the file name up to its first dot
ClassNameOf(sourcePath) == BeforeFirstDot(Basename(sourcePath))

\* every failure of the resolver reaches the caller as it is
loadClassErrorUnchanged(sourcePath) ==
    IF FileSystem[sourcePath].resolve = "ok" THEN NoError ELSE ResolverFailure

loadClassError(sourcePath) ==
    CASE FileSystem[sourcePath].resolve = "TypeError" -> ClassNotFound
      [] FileSystem[sourcePath].resolve = "Error" -> ResolverFailure
      [] OTHER -> NoError

loadClass(st, sourcePath) ==
    [st EXCEPT !.resolved = Append(@, [filePath |-> sourcePath,
                                       className |-> ClassNameOf(sourcePath)]),
               !.error = loadClassError(sourcePath)]

\* lines 121-131: the icons of the node and of its variants, the option loaders
\* of its variants
fixVersions(pkg, node, filePath) ==
    [v \in DOMAIN node.nodeVersions |->
        addLoadOptionsMethods(
            [node.nodeVersions[v] EXCEPT !.description = fixIconPaths(pkg, @, filePath)])]

fixNode(pkg, node, filePath) ==
    [node EXCEPT !.description = fixIconPaths(pkg, @, filePath),
                 !.nodeVersions = fixVersions(pkg, node, filePath)]

\* lines 133-134 and 144
enrichNode(pkg, node, codexFile) ==
    IF node.versioned
    THEN [node EXCEPT !.nodeVersions[node.currentVersion] = addCodex(pkg, @, codexFile)]
    ELSE addLoadOptionsMethods(node)

\* lines 137-141
executeSingleError(node) ==
    IF node.versioned /\ node.nodeVersions[node.currentVersion].executeSingle
    THEN ExecuteSingleRemoved ELSE NoError

\* lines 123, 135, 147-149
nodeVersionOf(node) ==
    IF node.versioned THEN node.currentVersion
    ELSE IF node.description.version.isArray
         THEN Last(node.description.version.values)
         ELSE node.description.version.values[1]

Descriptions(nodes) == [i \in 1..Len(nodes) |-> nodes[i].description]

\* what lines 152-176 use of the instance node, after the in-place changes of
\* lines 108-144 and, for tempNode, of lines 225-226
\*   nodeType     description.name (line 110)
\*   error        the throw of line 138, if any
\*   tempNode     the instance as nodeTypes holds it (line 158)
\*   nodeVersion  the version of the loadedNodes entry
\*   descriptions what lines 167-169 push onto types.nodes
\*   credentials  what line 171 iterates over
preparedNode(node) ==
    [nodeType |-> node.description.name,
     error |-> executeSingleError(node),
     tempNode |-> IF node.versioned THEN [node EXCEPT !.nodeVersions = StampedVersions(node)]
                  ELSE node,
     nodeVersion |-> nodeVersionOf(node),
     descriptions |-> Descriptions(getVersionedNodeTypeAll(node)),
     credentials |-> getCredentialsForNode(node)]

\* lines 107-150 applied to the instance node the resolver returned for
\* filePath, codexFile being what module.require finds next to the file
prepareInstance(pkg, node, codexFile, filePath) ==
    preparedNode(enrichNode(pkg, fixNode(pkg, addCodex(pkg, node, codexFile), filePath),
                            codexFile))

\* lines 107-150 applied to the instance the resolver returns for filePath
prepareNode(pkg, filePath) ==
    prepareInstance(pkg, FileSystem[filePath].instance, FileSystem[filePath].codexFile,
                    filePath)

AllNodePaths == NodePaths \cup {Node5Path, Node6Path}
AllCredentialPaths == CredentialPaths \cup {Credential3Path}

\* prepareNode for every namespace and node file
Prepared == [pkg \in PackageNames |-> [filePath \in AllNodePaths |-> prepareNode(pkg, filePath)]]

\* the push replaces the array instead of extending it
pushedAlone(st, c, nodeType) == <<nodeType>>

\* lines 172-175: the array nodesByCredential[c] after the push
pushed(st, c, nodeType) ==
    Append(IF HasKey(st.nodesByCredential, c) THEN st.nodesByCredential[c] ELSE <<>>, nodeType)

\* only the first node declaring c is indexed under it
indexCredentialOnce(st, c, nodeType) ==
    IF HasKey(st.nodesByCredential, c) THEN st
    ELSE [st EXCEPT !.nodesByCredential = Put(@, c, <<nodeType>>)]

\* A push onto the array nodesByCredential[c] is seen through
\* known.credentials[c].supportedNodes when that field holds the same array.
indexCredential(st, c, nodeType) ==
    IF c \in st.aliased
    THEN [st EXCEPT !.nodesByCredential = Put(@, c, pushed(st, c, nodeType)),
                    !.known.credentials[c].supportedNodes = Some(pushed(st, c, nodeType))]
    ELSE [st EXCEPT !.nodesByCredential = Put(@, c, pushed(st, c, nodeType))]

\* lines 171-176, for the credentials of one node in order
RECURSIVE indexCredentials(_, _, _)
indexCredentials(st, credentials, nodeType) ==
    IF credentials = <<>> THEN st
    ELSE indexCredentials(indexCredential(st, Head(credentials), nodeType),
                          Tail(credentials), nodeType)

\* loadedNodes gets one entry per variant descriptor
recordNodePerVariant(st, prepared, filePath) ==
    indexCredentials(
        [st EXCEPT
           !.known.nodes = Put(@, prepared.nodeType,
                [className |-> prepared.tempNode.className, sourcePath |-> filePath]),
           !.nodeTypes = Put(@, prepared.nodeType,
                [type |-> prepared.tempNode, sourcePath |-> filePath]),
           !.loadedNodes = @ \o [i \in 1..Len(prepared.descriptions) |->
                                    [name |-> prepared.nodeType,
                                     version |-> prepared.descriptions[i].version.values[1]]],
           !.types.nodes = @ \o prepared.descriptions],
        prepared.credentials, prepared.nodeType)

\* lines 152-176
recordNode(st, prepared, filePath) ==
    indexCredentials(
        [st EXCEPT
           !.known.nodes = Put(@, prepared.nodeType,
                [className |-> prepared.tempNode.className, sourcePath |-> filePath]),
           !.nodeTypes = Put(@, prepared.nodeType,
                [type |-> prepared.tempNode, sourcePath |-> filePath]),
           !.loadedNodes = Append(@, [name |-> prepared.nodeType,
                                      version |-> prepared.nodeVersion]),
           !.types.nodes = @ \o prepared.descriptions],
        prepared.credentials, prepared.nodeType)

\* lines 110-119: the node is filtered out by its fully-qualified name
filteredOut(this, nodeType) ==
    \/ Len(this.includeNodes) > 0
       /\ ~Includes(this.includeNodes, this.packageName \o "." \o nodeType)
    \/ Includes(this.excludeNodes, this.packageName \o "." \o nodeType)

\* the executeSingle check made after the node has been recorded
loadNodeCheckingLate(this, called, prepared, filePath) ==
    IF called.error # NoError THEN called
    ELSE IF filteredOut(this, prepared.nodeType) THEN called
    ELSE [recordNode(called, prepared, filePath) EXCEPT !.error = prepared.error]

\* lines 108-176, once loadClass has returned or thrown (called)
loadNode(this, called, prepared, filePath) ==
    IF called.error # NoError THEN called
    ELSE IF filteredOut(this, prepared.nodeType) THEN called
    ELSE IF prepared.error # NoError THEN [called EXCEPT !.error = prepared.error]
    ELSE recordNode(called, prepared, filePath)

\* lines 106-177
loadNodeFromFile(this, st, filePath) ==
    loadNode(this, loadClass(st, filePath), Prepared[this.packageName][filePath], filePath)

\* lines 106-177 when the resolver returns the instance node for filePath
loadInstance(this, st, node, codexFile, filePath) ==
    loadNode(this,
             [st EXCEPT !.resolved = Append(@, [filePath |-> filePath,
                                                className |-> ClassNameOf(filePath)])],
             prepareInstance(this.packageName, node, codexFile, filePath),
             filePath)

\* line 194: the array nodesByCredential[credentialType], undefined when absent
supportedNodes(st, credentialType) ==
    IF HasKey(st.nodesByCredential, credentialType)
    THEN Some(st.nodesByCredential[credentialType])
    ELSE None

\* lines 187-202, once loadClass has returned or thrown (called)
loadCredential(called, tempCredential, filePath) ==
    IF called.error # NoError THEN called
    ELSE [called EXCEPT
            !.known.credentials = Put(@, tempCredential.name,
                 [className |-> tempCredential.className, sourcePath |-> filePath,
                  extends |-> tempCredential.extends,
                  supportedNodes |-> supportedNodes(called, tempCredential.name)]),
            !.aliased = IF supportedNodes(called, tempCredential.name) # None
                        THEN @ \cup {tempCredential.name}
                        ELSE @ \ {tempCredential.name},
            !.credentialTypes = Put(@, tempCredential.name,
                 [type |-> tempCredential, sourcePath |-> filePath]),
            !.types.credentials = Append(@, tempCredential)]

\* lines 179-203
loadCredentialFromFile(this, st, filePath) ==
    loadCredential(loadClass(st, filePath),
                   fixIconPaths(this.packageName, FileSystem[filePath].instance, filePath),
                   filePath)

\* a for-of loop over files that stops at the first throw
RECURSIVE loadNodeFiles(_, _, _)
loadNodeFiles(this, st, paths) ==
    IF paths = <<>> \/ st.error # NoError THEN st
    ELSE loadNodeFiles(this, loadNodeFromFile(this, st, Head(paths)), Tail(paths))

RECURSIVE loadCredentialFiles(_, _, _)
loadCredentialFiles(this, st, paths) ==
    IF paths = <<>> \/ st.error # NoError THEN st
    ELSE loadCredentialFiles(this, loadCredentialFromFile(this, st, Head(paths)), Tail(paths))

\* lines 339-357
CustomLoadAll(this, st) ==
    loadCredentialFiles(this, loadNodeFiles(this, st, this.globResult.nodes),
                        this.globResult.credentials)

\* Array.isArray(list) ? list : [] of an optional list
ListOrEmpty(list) == IF list # None THEN Value(list) ELSE <<>>

\* a missing n8n block treated as an error
PackageLoadAllRequiringBlock(this, st) ==
    IF this.packageJson.n8n = None THEN [st EXCEPT !.error = ResolverFailure]
    ELSE loadCredentialFiles(this,
            loadNodeFiles(this, st, ListOrEmpty(Value(this.packageJson.n8n).nodes)),
            ListOrEmpty(Value(this.packageJson.n8n).credentials))

\* lines 369-391
PackageLoadAll(this, st) ==
    IF this.packageJson.n8n = None THEN st
    ELSE loadCredentialFiles(this,
            loadNodeFiles(this, st, ListOrEmpty(Value(this.packageJson.n8n).nodes)),
            ListOrEmpty(Value(this.packageJson.n8n).credentials))

\* --------------------------------- the lazy manifests (dist/known, dist/types)
\* The four artifacts are written by the package's build, which is not part of
\* this source: they hold what an unfiltered eager load of the package's
\* loadable files records, keyed by bare node and credential names.
Loadable(filePath) ==
    loadClassError(filePath) = NoError /\ Prepared[TestingPackage][filePath].error = NoError

BuiltFrom(packageJson_) ==
    IF packageJson_.n8n = None THEN packageJson_
    ELSE [packageJson_ EXCEPT !.n8n = Some(
            [Value(@) EXCEPT !.nodes = IF @ = None THEN None
                                       ELSE Some(SelectSeq(Value(@), Loadable))])]

Written(built) ==
    [knownNodes |-> built.known.nodes,
     knownCredentials |-> built.known.credentials,
     typesNodes |-> built.types.nodes,
     typesCredentials |-> built.types.credentials]

Manifest(packageJson_) ==
    Written(PackageLoadAll([packageName |-> packageJson_.name, includeNodes |-> <<>>,
                            excludeNodes |-> <<>>, packageJson |-> BuiltFrom(packageJson_),
                            globResult |-> NothingFound],
                           Constructed))

\* the artifacts on disk for every package descriptor
Manifests == [packageJson_ \in PackageJsons |-> Manifest(packageJson_)]

Artifacts == <<"dist/known/nodes.json", "dist/known/credentials.json",
               "dist/types/nodes.json", "dist/types/credentials.json">>

\* the keys of known.nodes that are / are not in a filter list
Listed(known_, list) == {nodeName \in DOMAIN known_ : Includes(list, nodeName)}
Unlisted(known_, list) == {nodeName \in DOMAIN known_ : ~Includes(list, nodeName)}

\* lines 428-440
includeFilter(this, st) ==
    IF Len(this.includeNodes) > 0
    THEN [st EXCEPT
            !.known.nodes = [nodeName \in Listed(@, this.includeNodes) |-> @[nodeName]],
            !.types.nodes = SelectSeq(@, LAMBDA nodeType :
                                            Includes(this.includeNodes, nodeType.name))]
    ELSE st

\* the exclude list applied to known.nodes only
excludeFilterKnownOnly(this, st) ==
    IF Len(this.excludeNodes) > 0
    THEN [st EXCEPT
            !.known.nodes = [nodeName \in Unlisted(@, this.excludeNodes) |-> @[nodeName]]]
    ELSE st

\* lines 442-450
excludeFilter(this, st) ==
    IF Len(this.excludeNodes) > 0
    THEN [st EXCEPT
            !.known.nodes = [nodeName \in Unlisted(@, this.excludeNodes) |-> @[nodeName]],
            !.types.nodes = SelectSeq(@, LAMBDA nodeType :
                                            ~Includes(this.excludeNodes, nodeType.name))]
    ELSE st

\* lines 422-426 with the manifests m.  failedRead = 0: the four reads succeed;
\* failedRead = k: the k-th readJSON throws (file missing or not JSON), after
\* the results of the reads before it have been assigned.
assignManifests(st, m, failedRead) ==
    [st EXCEPT
       !.reads = @ \o SubSeq(Artifacts, 1, IF failedRead = 0 THEN 4 ELSE failedRead),
       !.known.nodes = IF failedRead = 0 \/ 1 < failedRead THEN m.knownNodes ELSE @,
       !.known.credentials = IF failedRead = 0 \/ 2 < failedRead THEN m.knownCredentials ELSE @,
       !.aliased = IF failedRead = 0 \/ 2 < failedRead THEN {} ELSE @,
       !.types.nodes = IF failedRead = 0 \/ 3 < failedRead THEN m.typesNodes ELSE @,
       !.types.credentials = IF failedRead = 0 THEN m.typesCredentials ELSE @]

readManifests(this, st, failedRead) ==
    assignManifests(st, Manifests[this.packageJson], failedRead)

\* line 411: the error readJSON throws on malformed content
FailedToParseJSON == "Failed to parse JSON"

\* a failing read reaches the caller instead of starting the eager strategy
LazyLoadAllRethrowing(this, st, failedRead) ==
    IF failedRead = 0
    THEN [excludeFilter(this, includeFilter(this, readManifests(this, st, failedRead)))
            EXCEPT !.isLazyLoaded = TRUE]
    ELSE [readManifests(this, st, failedRead) EXCEPT !.error = FailedToParseJSON]

\* lines 420-464
LazyLoadAll(this, st, failedRead) ==
    IF failedRead = 0
    THEN [excludeFilter(this, includeFilter(this, readManifests(this, st, failedRead)))
            EXCEPT !.isLazyLoaded = TRUE]
    ELSE PackageLoadAll(this, readManifests(this, st, failedRead))

This ==
    [packageName |-> packageName, includeNodes |-> includeNodes,
     excludeNodes |-> excludeNodes, packageJson |-> packageJson, globResult |-> globResult]

Current ==
    [isLazyLoaded |-> isLazyLoaded, loadedNodes |-> loadedNodes, nodeTypes |-> nodeTypes,
     credentialTypes |-> credentialTypes, known |-> known, types |-> types,
     nodesByCredential |-> nodesByCredential, aliased |-> aliased,
     error |-> NoError, resolved |-> <<>>, reads |-> <<>>]

Becomes(st) ==
    /\ isLazyLoaded' = st.isLazyLoaded
    /\ loadedNodes' = st.loadedNodes
    /\ nodeTypes' = st.nodeTypes
    /\ credentialTypes' = st.credentialTypes
    /\ known' = st.known
    /\ types' = st.types
    /\ nodesByCredential' = st.nodesByCredential
    /\ aliased' = st.aliased

Returned(op, failedRead, st) ==
    [op |-> op, failedRead |-> failedRead, error |-> st.error,
     resolved |-> st.resolved, reads |-> st.reads]

Init ==
    /\ loaderClass \in {CustomDirectoryLoader, PackageDirectoryLoader, LazyPackageDirectoryLoader}
    /\ packageName = IF loaderClass = CustomDirectoryLoader THEN CUSTOM ELSE TestingPackage
    /\ IF loaderClass = CustomDirectoryLoader
       THEN packageJson = None /\ globResult \in Listings
       ELSE packageJson \in PackageJsons /\ globResult = NothingFound
    /\ includeNodes \in FilterLists(packageName)
    /\ excludeNodes \in FilterLists(packageName)
    /\ brokenArtifact \in IF loaderClass = LazyPackageDirectoryLoader
                          THEN 1..Len(Artifacts) ELSE {0}
    /\ isLazyLoaded = Constructed.isLazyLoaded
    /\ loadedNodes = Constructed.loadedNodes
    /\ nodeTypes = Constructed.nodeTypes
    /\ credentialTypes = Constructed.credentialTypes
    /\ known = Constructed.known
    /\ types = Constructed.types
    /\ nodesByCredential = Constructed.nodesByCredential
    /\ aliased = Constructed.aliased
    /\ log = <<>>

\* the call returns (or throws) leaving the object as st
Returns(op, failedRead, st) ==
    /\ Becomes(st)
    /\ log' = Append(log, Returned(op, failedRead, st))
    /\ UNCHANGED config

CallReset ==
    /\ Len(log) < MaxCalls
    /\ \E st \in {reset(Current)} : Returns("reset", 0, st)

CallCustomLoadAll ==
    /\ loaderClass = CustomDirectoryLoader
    /\ Len(log) < MaxCalls
    /\ \E st \in {CustomLoadAll(This, Current)} : Returns("loadAll", 0, st)

CallPackageLoadAll ==
    /\ loaderClass = PackageDirectoryLoader
    /\ Len(log) < MaxCalls
    /\ \E st \in {PackageLoadAll(This, Current)} : Returns("loadAll", 0, st)

CallLazyLoadAll ==
    /\ loaderClass = LazyPackageDirectoryLoader
    /\ Len(log) < MaxCalls
    /\ \E failedRead \in {0, brokenArtifact} :
          \E st \in {LazyLoadAll(This, Current, failedRead)} :
              Returns("loadAll", failedRead, st)

\* ---------------------------------------- one file, any instance behind it
MaxVersion == 2

\* description.version: a number, or a non-empty list of distinct numbers
DeclaredVersions ==
    {Num(v) : v \in 1..MaxVersion}
    \cup {Arr(vs) : vs \in DistinctSeqs(1..MaxVersion, MaxVersion) \ {<<>>}}

DeclaredIcons ==
    {None, Some(Icon("")), Some(Icon("file:a.svg")), Some(Icon("fa:code")),
     Some(Themed("file:a.svg", "file:b.svg")), Some(Themed("file:a.svg", "fa:moon")),
     Some(Themed("fa:sun", "file:b.svg"))}

DeclaredCodexes == {None, Some(CodexOf(Some(<<"AI">>))), Some(CodexOf(None))}

\* the sidecar <file>on: missing, complete, without categories, listing the
\* custom category itself, without resources
CodexFiles ==
    {None, Some(CodexOf(Some(<<"Development">>))), Some(CodexOf(None)),
     Some(CodexOf(Some(<<CUSTOM_NODES_CATEGORY>>))),
     Some([CodexOf(Some(<<"Development">>)) EXCEPT !.resources = None])}

PlainInstances ==
    {NodeType("Node", Description("node", version, None, icon, codex), FALSE, None) :
        version \in DeclaredVersions, icon \in DeclaredIcons, codex \in DeclaredCodexes}

\* the variant of version v of a versioned node
Variant(v, icon) ==
    NodeType("NodeV", Description("nodeV", Num(v), None, icon, None), FALSE, None)

VersionedInstances ==
    {VersionedNodeType("Node", Description("node", Arr(<<1>>), None, None, codex),
                       [v \in 1..k |-> Variant(v, icon)], currentVersion) :
        k \in 1..MaxVersion, currentVersion \in 1..MaxVersion,
        icon \in {None, Some(Icon("file:a.svg"))}, codex \in DeclaredCodexes}

Instances ==
    PlainInstances
    \cup {node \in VersionedInstances : node.currentVersion \in DOMAIN node.nodeVersions}

InstancePath == "dist/Node/Node.node.js"

\* a loader without filters, about to load one node file
InstanceInit ==
    /\ loaderClass \in {CustomDirectoryLoader, PackageDirectoryLoader}
    /\ packageName = IF loaderClass = CustomDirectoryLoader THEN CUSTOM ELSE TestingPackage
    /\ packageJson = IF loaderClass = CustomDirectoryLoader THEN None
                     ELSE [name |-> TestingPackage, n8n |-> None]
    /\ globResult = NothingFound
    /\ includeNodes = <<>>
    /\ excludeNodes = <<>>
    /\ brokenArtifact = 0
    /\ isLazyLoaded = Constructed.isLazyLoaded
    /\ loadedNodes = Constructed.loadedNodes
    /\ nodeTypes = Constructed.nodeTypes
    /\ credentialTypes = Constructed.credentialTypes
    /\ known = Constructed.known
    /\ types = Constructed.types
    /\ nodesByCredential = Constructed.nodesByCredential
    /\ aliased = Constructed.aliased
    /\ log = <<>>

\* loadNodeFromFile(InstancePath), the resolver returning node
CallLoadNodeFromFile ==
    /\ log = <<>>
    /\ \E node \in Instances : \E codexFile \in CodexFiles :
          \E st \in {loadInstance(This, Current, node, codexFile, InstancePath)} :
              /\ Becomes(st)
              /\ log' = <<[op |-> "loadNodeFromFile", instance |-> node,
                           codexFile |-> codexFile, error |-> st.error,
                           resolved |-> st.resolved]>>
              /\ UNCHANGED config

InstanceNext == CallLoadNodeFromFile

InstanceSpec == InstanceInit /\ [][InstanceNext]_vars

\* ------------------------- a lazy loader whose filter lists hold bare names
\* filter lists that spell a name as the manifests do
BareFilterLists == {<<>>} \cup {<<n>> : n \in FilteredNames}

FilterInit ==
    /\ loaderClass = LazyPackageDirectoryLoader
    /\ packageName = TestingPackage
    /\ packageJson \in PackageJsons
    /\ globResult = NothingFound
    /\ includeNodes \in BareFilterLists
    /\ excludeNodes \in BareFilterLists
    /\ brokenArtifact \in 1..Len(Artifacts)
    /\ isLazyLoaded = Constructed.isLazyLoaded
    /\ loadedNodes = Constructed.loadedNodes
    /\ nodeTypes = Constructed.nodeTypes
    /\ credentialTypes = Constructed.credentialTypes
    /\ known = Constructed.known
    /\ types = Constructed.types
    /\ nodesByCredential = Constructed.nodesByCredential
    /\ aliased = Constructed.aliased
    /\ log = <<>>

FilterNext == CallLazyLoadAll

FilterSpec == FilterInit /\ [][FilterNext]_vars

\* ------------------------------- eager loaders over files that fail to resolve
ResolverListings ==
    [nodes : DistinctSeqs(AllNodePaths, MaxNodeFiles),
     credentials : DistinctSeqs(AllCredentialPaths, MaxCredentialFiles)]

\* an eager loader without filters whose files may fail to resolve
ResolverInit ==
    /\ loaderClass \in {CustomDirectoryLoader, PackageDirectoryLoader}
    /\ packageName = IF loaderClass = CustomDirectoryLoader THEN CUSTOM ELSE TestingPackage
    /\ \E l \in ResolverListings :
          IF loaderClass = CustomDirectoryLoader
          THEN packageJson = None /\ globResult = l
          ELSE /\ packageJson = [name |-> TestingPackage,
                                 n8n |-> Some([nodes |-> Some(l.nodes),
                                               credentials |-> Some(l.credentials)])]
               /\ globResult = NothingFound
    /\ includeNodes = <<>>
    /\ excludeNodes = <<>>
    /\ brokenArtifact = 0
    /\ isLazyLoaded = Constructed.isLazyLoaded
    /\ loadedNodes = Constructed.loadedNodes
    /\ nodeTypes = Constructed.nodeTypes
    /\ credentialTypes = Constructed.credentialTypes
    /\ known = Constructed.known
    /\ types = Constructed.types
    /\ nodesByCredential = Constructed.nodesByCredential
    /\ aliased = Constructed.aliased
    /\ log = <<>>

ResolverNext == CallReset \/ CallCustomLoadAll \/ CallPackageLoadAll

ResolverSpec == ResolverInit /\ [][ResolverNext]_vars

Next == CallReset \/ CallCustomLoadAll \/ CallPackageLoadAll \/ CallLazyLoadAll

Spec == Init /\ [][Next]_vars

\* ------------------------------------------------- reading the registry
\* the loadAll of the loader's class
loadAll(this, st, failedRead) ==
    CASE loaderClass = CustomDirectoryLoader -> CustomLoadAll(this, st)
      [] loaderClass = PackageDirectoryLoader -> PackageLoadAll(this, st)
      [] OTHER -> LazyLoadAll(this, st, failedRead)

\* the public registry fields of a loader object
Registry(st) ==
    [known |-> st.known, types |-> st.types, nodeTypes |-> st.nodeTypes,
     credentialTypes |-> st.credentialTypes, loadedNodes |-> st.loadedNodes,
     nodesByCredential |-> st.nodesByCredential]

Range(arr) == {arr[i] : i \in 1..Len(arr)}
NamesIn(arr) == {arr[i].name : i \in 1..Len(arr)}
CountOf(arr, v) == Cardinality({i \in 1..Len(arr) : arr[i] = v})

\* the node files the loader is given to discover
DiscoveredNodes ==
    IF loaderClass = CustomDirectoryLoader THEN globResult.nodes
    ELSE IF packageJson.n8n = None THEN <<>>
    ELSE ListOrEmpty(Value(packageJson.n8n).nodes)

DiscoveredCredentials ==
    IF loaderClass = CustomDirectoryLoader THEN globResult.credentials
    ELSE IF packageJson.n8n = None THEN <<>>
    ELSE ListOrEmpty(Value(packageJson.n8n).credentials)

\* the bare name of the node in a file
NodeNameOf(filePath) == FileSystem[filePath].instance.description.name
NodeNames == {NodeNameOf(filePath) : filePath \in AllNodePaths}
CredentialNames == {FileSystem[filePath].instance.name : filePath \in CredentialPaths}

\* the array nodesByCredential holds for c, empty when it holds none
IndexedUnder(c) == IF HasKey(nodesByCredential, c) THEN nodesByCredential[c] ELSE <<>>

LastCall == log[Len(log)]
AfterLoadAll == Len(log) > 0 /\ LastCall.op = "loadAll"
\* the last call was a loadAll on the registry as constructed
FirstLoadAll == Len(log) = 1 /\ LastCall.op = "loadAll"

\* ------------------------------------------------------------- claims
\* C1: a lazy loadAll on an empty registry in which one of the four manifest
\* reads fails leaves the registry equal to the one PackageDirectoryLoader.loadAll
\* produces from the same package descriptor and files.
C1_FallbackEquivalence ==
    (loaderClass = LazyPackageDirectoryLoader /\ FirstLoadAll /\ LastCall.failedRead # 0)
        => Registry(Current) = Registry(PackageLoadAll(This, Constructed))

\* C2: after reset(), every registry field has its value at construction and
\* the lazily-loaded flag is false.
C2_ResetRestoresConstruction ==
    (Len(log) > 0 /\ LastCall.op = "reset")
        => /\ Registry(Current) = Registry(Constructed)
           /\ isLazyLoaded = Constructed.isLazyLoaded

\* C3: the registry after loadAll(); reset(); loadAll() over the same inputs
\* (the same files, the same outcome of the manifest reads) is, field by
\* field, the registry after the first loadAll().
C3_IdempotentRescan ==
    (/\ Len(log) = 3
     /\ log[1].op = "loadAll" /\ log[2].op = "reset" /\ log[3].op = "loadAll"
     /\ log[1].failedRead = log[3].failedRead)
        => Registry(Current) = Registry(loadAll(This, Constructed, log[1].failedRead))

\* C4: in every reachable state, node name n appears in nodesByCredential[c]
\* exactly once if n is recorded in nodeTypes and declares credential c (in
\* any of its variants), and does not appear there otherwise.
C4_ReverseIndexConsistent ==
    \A c \in CredentialNames : \A n \in NodeNames :
        CountOf(IndexedUnder(c), n)
            = IF HasKey(nodeTypes, n) /\ c \in Range(getCredentialsForNode(nodeTypes[n].type))
              THEN 1 ELSE 0

\* C5: after any lazy loadAll call, isLazyLoaded is true if and only if the
\* four manifest reads of that call succeeded, and when they all succeeded
\* the component resolver was not invoked during the call.
C5_LazyFlagTracksReads ==
    (loaderClass = LazyPackageDirectoryLoader /\ AfterLoadAll)
        => /\ isLazyLoaded <=> LastCall.failedRead = 0
           /\ LastCall.failedRead = 0 => LastCall.resolved = <<>>

\* the bare names whose fully-qualified name is in a filter list
Qualified(nodeName) == packageName \o "." \o nodeName
Excluded == {n \in NodeNames : Includes(excludeNodes, Qualified(n))}

\* the names that have an entry in one of the node structures
Registered ==
    DOMAIN known.nodes \cup DOMAIN nodeTypes \cup NamesIn(loadedNodes) \cup NamesIn(types.nodes)
    \cup UNION {Range(nodesByCredential[c]) : c \in DOMAIN nodesByCredential}

\* C6: after loadAll on an empty registry, by any loader, a node whose
\* fully-qualified name is in the exclude list has no entry in known.nodes,
\* nodeTypes, loadedNodes, types.nodes or nodesByCredential.
C6_ExcludeWins ==
    FirstLoadAll => Excluded \cap Registered = {}

\* the loadAll just made from the empty registry was eager, or lazy with the
\* four reads successful
EagerOrLazy == FirstLoadAll /\ LastCall.error = NoError /\ LastCall.failedRead = 0

\* C7: when the include list is exactly <<packageName.X>>, the exclude list is
\* empty and X is among the discovered nodes, the node registry after loadAll
\* (eager, or lazy with all reads successful) from the empty state holds the
\* forward record of X and of no other node.
C7_IncludeOne ==
    \A filePath \in Range(DiscoveredNodes) :
        (/\ EagerOrLazy
         /\ includeNodes = <<Qualified(NodeNameOf(filePath))>>
         /\ excludeNodes = <<>>)
            => DOMAIN known.nodes = {NodeNameOf(filePath)}

\* the files a call handed to the resolver, in order
ResolvedFiles(call) == [i \in 1..Len(call.resolved) |-> call.resolved[i].filePath]

\* the call being made throws the retired-API error
ThrowsExecuteSingle == log' # log /\ Last(log').error = ExecuteSingleRemoved

\* the loader object when the eager part of the call begins
EagerStart(call) ==
    IF loaderClass = LazyPackageDirectoryLoader
    THEN readManifests(This, Current, call.failedRead)
    ELSE Current

\* the call stopped at the file with the retired API, and the registry is what
\* loading the files before it, and nothing else, leaves
AbortsAtFailingFile(call) ==
    /\ executeSingleError(FileSystem[Last(ResolvedFiles(call))].instance) = ExecuteSingleRemoved
    /\ ResolvedFiles(call) = SubSeq(DiscoveredNodes, 1, Len(call.resolved))
    /\ NodeNameOf(Last(ResolvedFiles(call))) \notin Registered'
    /\ Registry(Current)' =
          Registry(loadNodeFiles(This, EagerStart(call),
                                 SubSeq(ResolvedFiles(call), 1, Len(call.resolved) - 1)))

\* C8: when a loadAll call fails because the current variant of a versioned
\* node owns executeSingle, the call stops at that file (no later file is
\* handed to the resolver), no registry field has an entry for the failing
\* file, and the registry is exactly what the files processed before it left.
C8_RetiredApiAborts ==
    [][ThrowsExecuteSingle => AbortsAtFailingFile(Last(log'))]_vars

\* a call threw the retired-API error after recording an earlier file
C8_Witness ==
    /\ AfterLoadAll
    /\ LastCall.error = ExecuteSingleRemoved
    /\ Len(LastCall.resolved) = 2
    /\ NodeNameOf(LastCall.resolved[1].filePath) \in DOMAIN nodeTypes

\* the last call was a loadAll on an empty forward registry (as constructed,
\* or after reset) and returned without error
LoadedFromEmpty ==
    /\ AfterLoadAll
    /\ LastCall.error = NoError
    /\ Len(log) = 1 \/ log[Len(log) - 1].op = "reset"

\* the node files the last call loaded and did not filter out
Accepted ==
    {filePath \in Range(ResolvedFiles(LastCall)) \cap AllNodePaths :
        ~filteredOut(This, NodeNameOf(filePath))}

\* the single record of the node of filePath, holding all its variants
OneRecord(filePath) ==
    /\ HasKey(nodeTypes, NodeNameOf(filePath))
    /\ nodeTypes[NodeNameOf(filePath)].sourcePath = filePath
    /\ DOMAIN nodeTypes[NodeNameOf(filePath)].type.nodeVersions
          = DOMAIN FileSystem[filePath].instance.nodeVersions
    /\ HasKey(known.nodes, NodeNameOf(filePath))
    /\ known.nodes[NodeNameOf(filePath)].sourcePath = filePath
    /\ Cardinality({i \in 1..Len(loadedNodes) : loadedNodes[i].name = NodeNameOf(filePath)}) = 1

\* C9: after a loadAll on an empty registry that returns without error, every
\* node the call loaded, whatever the number k >= 1 of its variants, has
\* exactly one record under its name in nodeTypes, one entry in known.nodes
\* and one name/version pair in loadedNodes.
C9_OneRecordPerNode ==
    LoadedFromEmpty => \A filePath \in Accepted : OneRecord(filePath)

\* a node with two variants was loaded
C9_Witness ==
    /\ LoadedFromEmpty
    /\ Node3Path \in Accepted
    /\ Cardinality(DOMAIN nodeTypes["node3"].type.nodeVersions) = 2

\* the nodes among the discovered files that declare credential c
Declaring(c) ==
    {NodeNameOf(filePath) : filePath \in
        {f \in Range(DiscoveredNodes) : c \in Range(getCredentialsForNode(FileSystem[f].instance))}}

\* the last call was an eager loadAll, without filters, on the registry as
\* constructed, and returned without error
EagerDiscovery ==
    /\ FirstLoadAll
    /\ loaderClass \in {CustomDirectoryLoader, PackageDirectoryLoader}
    /\ includeNodes = <<>> /\ excludeNodes = <<>>
    /\ LastCall.error = NoError

\* C10: after an eager loadAll without filters on an empty registry, the
\* resolver was invoked once per discovered file, no manifest artifact was
\* read, isLazyLoaded is false, nodeTypes holds one record per node file and
\* credentialTypes one per credential file, each with the file's path as
\* sourcePath, and nodesByCredential maps each declared credential to exactly
\* the nodes declaring it.
C10_EagerDiscovery ==
    EagerDiscovery =>
        /\ ResolvedFiles(LastCall) = DiscoveredNodes \o DiscoveredCredentials
        /\ LastCall.reads = <<>>
        /\ ~isLazyLoaded
        /\ Cardinality(DOMAIN nodeTypes) = Len(DiscoveredNodes)
        /\ \A f \in Range(DiscoveredNodes) :
              HasKey(nodeTypes, NodeNameOf(f)) /\ nodeTypes[NodeNameOf(f)].sourcePath = f
        /\ Cardinality(DOMAIN credentialTypes) = Len(DiscoveredCredentials)
        /\ \A f \in Range(DiscoveredCredentials) :
              /\ HasKey(credentialTypes, FileSystem[f].instance.name)
              /\ credentialTypes[FileSystem[f].instance.name].sourcePath = f
        /\ DOMAIN nodesByCredential = {c \in CredentialNames : Declaring(c) # {}}
        /\ \A c \in DOMAIN nodesByCredential :
              /\ Range(nodesByCredential[c]) = Declaring(c)
              /\ Len(nodesByCredential[c]) = Cardinality(Declaring(c))

\* the directory scan of the test: node1 declaring credential1, node2
\* declaring none, and the credential file
C10_Witness ==
    /\ EagerDiscovery
    /\ loaderClass = CustomDirectoryLoader
    /\ globResult = [nodes |-> <<Node1Path, Node2Path>>, credentials |-> <<Credential1Path>>]
    /\ nodesByCredential = [c \in {"credential1"} |-> <<"node1">>]
    /\ DOMAIN nodeTypes = {"node1", "node2"}
    /\ DOMAIN credentialTypes = {"credential1"}

\* a loadAll call is being made
CallsLoadAll == log' # log /\ Last(log').op = "loadAll"

\* C11: PackageDirectoryLoader.loadAll on a package descriptor without the
\* n8n block raises no error, invokes the resolver zero times and leaves
\* every registry field as it was before the call.
C11_NoCapabilityBlock ==
    [][(/\ CallsLoadAll
        /\ loaderClass = PackageDirectoryLoader
        /\ packageJson.n8n = None)
          => /\ Last(log').error = NoError
             /\ Last(log').resolved = <<>>
             /\ Registry(Current)' = Registry(Current)
             /\ isLazyLoaded' = isLazyLoaded]_vars

\* the package loader of a descriptor without n8n block has returned from loadAll
C11_Witness ==
    /\ AfterLoadAll
    /\ loaderClass = PackageDirectoryLoader
    /\ packageJson.n8n = None

\* ---------------------------------------------------------------- C12
\* a single node file has been loaded and recorded
LoadedInstance == log # <<>> /\ Last(log).op = "loadNodeFromFile" /\ Len(loadedNodes) = 1

\* the highest value of a declared version
Highest(version) ==
    IF version.isArray THEN Greatest({version.values[i] : i \in DOMAIN version.values})
    ELSE version.values[1]

\* C12: the version recorded in loadedNodes is the current-version marker of a
\* versioned node, and for a non-versioned node the declared number or the
\* highest value of the declared list, in whatever order the list is written.
C12_VersionResolution ==
    LoadedInstance =>
        loadedNodes[1].version =
            IF Last(log).instance.versioned THEN Last(log).instance.currentVersion
            ELSE Highest(Last(log).instance.description.version)

\* ---------------------------------------------------------------- C13
\* the orderings of a list without repetitions
Orderings(list) == {q \in DistinctSeqs(Range(list), Len(list)) : Len(q) = Len(list)}

\* the loader, its package descriptor listing nodes and credentials
Reordered(this, nodes, credentials) ==
    [this EXCEPT !.packageJson.n8n =
        Some([nodes |-> Some(nodes), credentials |-> Some(credentials)])]

Contents(list) == IF list = None THEN None ELSE Some(Range(Value(list)))

\* the records keyed by name, and what the reverse index holds under each name
NameKeyed(st) ==
    [nodes |-> st.known.nodes,
     nodeTypes |-> st.nodeTypes,
     credentials |-> [c \in DOMAIN st.known.credentials |->
                        [st.known.credentials[c] EXCEPT !.supportedNodes = Contents(@)]],
     credentialTypes |-> st.credentialTypes,
     nodesByCredential |-> [c \in DOMAIN st.nodesByCredential |->
                              Range(st.nodesByCredential[c])]]

PackageFirstLoadAll ==
    /\ loaderClass = PackageDirectoryLoader
    /\ FirstLoadAll
    /\ packageJson.n8n # None

LazyFiltered ==
    /\ loaderClass = LazyPackageDirectoryLoader
    /\ AfterLoadAll
    /\ LastCall.failedRead = 0
    /\ includeNodes # <<>> \/ excludeNodes # <<>>

\* the names the two node manifests of the package list
ManifestNames ==
    DOMAIN Manifests[packageJson].knownNodes \cup NamesIn(Manifests[packageJson].typesNodes)

\* the filter lists remove the name nodeName, as the manifests spell it
FilteredAway(nodeName) ==
    \/ Includes(excludeNodes, nodeName)
    \/ includeNodes # <<>> /\ ~Includes(includeNodes, nodeName)

Named(arr, nodeName) == SelectSeq(arr, LAMBDA nodeType : nodeType.name = nodeName)

\* both entries of nodeName are as the manifests give them
KeptAsRead(nodeName) ==
    /\ nodeName \in DOMAIN known.nodes <=> nodeName \in DOMAIN Manifests[packageJson].knownNodes
    /\ nodeName \in DOMAIN known.nodes
          => known.nodes[nodeName] = Manifests[packageJson].knownNodes[nodeName]
    /\ Named(types.nodes, nodeName) = Named(Manifests[packageJson].typesNodes, nodeName)

CalledOnInstance == log # <<>> /\ Last(log).op = "loadNodeFromFile"

\* the codex metadata the recorded node carries
RecordedCodex == nodeTypes["node"].type.description.codex

\* C15: for every loader the load of a node file never fails on codex
\* metadata and the node is recorded; a node that declares codex metadata is
\* recorded with that metadata (under the custom namespace, with the custom
\* category added to it); a node that declares none is recorded with the
\* metadata of the sidecar file when that file can be read.
C15_CodexPrefersOwn ==
    CalledOnInstance =>
        /\ Last(log).error = NoError
        /\ HasKey(nodeTypes, "node")
        /\ IF Last(log).instance.description.codex # None
           THEN RecordedCodex
                    = Some(withCustomCategory(packageName,
                                              Value(Last(log).instance.description.codex)))
           ELSE ~getCodexThrows(Last(log).codexFile)
                    => RecordedCodex
                         = Some(withCustomCategory(packageName,
                                                   getCodex(Value(Last(log).codexFile))))

\* ---------------------------------------------------------------- C16
\* the categories of the sidecar file, when it can be read and has any
SidecarCategories(codexFile) ==
    IF getCodexThrows(codexFile) \/ Value(codexFile).categories = None THEN <<>>
    ELSE Value(Value(codexFile).categories)

CategoriesOf(codex) ==
    IF codex = None \/ Value(codex).categories = None THEN <<>>
    ELSE Value(Value(codex).categories)

\* the custom category is once among the categories, next to those of the sidecar
CustomOnceNextTo(categories, others) ==
    /\ CountOf(categories, CUSTOM_NODES_CATEGORY) = 1
    /\ \A i \in 1..Len(others) : Includes(categories, others[i])

\* the node recorded under nodeName, followed by its variants
RecordedNodes(nodeName) ==
    <<nodeTypes[nodeName].type>> \o ObjectValues(nodeTypes[nodeName].type.nodeVersions)

\* C16: under the CUSTOM namespace every node recorded in nodeTypes, versioned
\* or not, whether or not its sidecar can be read, has the custom category
\* exactly once among its codex categories, and the categories of the sidecar
\* are present next to it.
C16_CustomCategoryOnce ==
    (CalledOnInstance /\ packageName = CUSTOM) =>
        \A nodeName \in DOMAIN nodeTypes :
            \A i \in 1..Len(RecordedNodes(nodeName)) :
                CustomOnceNextTo(CategoriesOf(RecordedNodes(nodeName)[i].description.codex),
                                 SidecarCategories(Last(log).codexFile))

\* ---------------------------------------------------------------- C17
InstanceDirectory == "dist/Node"

\* icons/<packageName>/<directory of the source file>/<filename>
IconUrlOf(icon) ==
    "icons/" \o packageName \o "/" \o InstanceDirectory \o "/"
        \o SubSeq(icon, Len(FILE_MARKER) + 1, Len(icon))

Marked(icon) == StartsWith(icon, FILE_MARKER)

\* the icon reference is one the loader rewrites
Rewritten(icon) ==
    /\ icon # None
    /\ IF Value(icon).themed THEN Marked(Value(icon).light) /\ Marked(Value(icon).dark)
       ELSE Marked(Value(icon).value)

RewrittenIcon(icon) ==
    IF icon.themed THEN Themed(IconUrlOf(icon.light), IconUrlOf(icon.dark))
    ELSE Icon(IconUrlOf(icon.value))

\* the descriptor loaded is the descriptor declared, its icon normalized
Normalized(declared, loaded) ==
    /\ IF Rewritten(declared.icon)
       THEN loaded.icon = None /\ loaded.iconUrl = Some(RewrittenIcon(Value(declared.icon)))
       ELSE loaded.icon = declared.icon /\ loaded.iconUrl = declared.iconUrl
    /\ loaded.iconUrl # declared.iconUrl => loaded.icon = None

\* C17: a single-string icon starting with the file marker becomes
\* iconUrl = icons/<packageName>/<directory of the file>/<filename> and icon is
\* removed; a dual-tone icon is rewritten, both sides, only when both sides
\* start with the marker; otherwise icon and iconUrl are as declared; no
\* descriptor has an iconUrl written by the loader next to its raw icon.
\* Checked on the descriptor of the loaded node and of each of its variants.
C17_IconNormalization ==
    (CalledOnInstance /\ HasKey(nodeTypes, "node")) =>
        /\ Normalized(Last(log).instance.description, nodeTypes["node"].type.description)
        /\ \A v \in DOMAIN Last(log).instance.nodeVersions :
              Normalized(Last(log).instance.nodeVersions[v].description,
                         nodeTypes["node"].type.nodeVersions[v].description)

C17_Witness ==
    /\ CalledOnInstance
    /\ loaderClass = PackageDirectoryLoader
    /\ Last(log).instance.description.icon = Some(Icon("file:a.svg"))
    /\ nodeTypes["node"].type.description.iconUrl
          = Some(Icon("icons/n8n-nodes-testing/dist/Node/a.svg"))

\* ---------------------------------------------------------------- C18
\* the files a call resolved and the error it raised
Outcome(call) == [resolved |-> call.resolved, error |-> call.error]

AfterLazyLoadAll == loaderClass = LazyPackageDirectoryLoader /\ AfterLoadAll

\* C18: within one lazy loadAll the artifacts are read in the order known
\* nodes, known credentials, types nodes, types credentials, each at most
\* once; the first failing read is the last read of the call and is followed
\* by exactly one run of the eager strategy; when no read fails the resolver
\* is not invoked; the only error that reaches the caller is the one of the
\* eager run.
C18_LazyReadProtocol ==
    AfterLazyLoadAll =>
        /\ LastCall.reads = SubSeq(Artifacts, 1, Len(LastCall.reads))
        /\ IF LastCall.failedRead = 0
           THEN /\ LastCall.reads = Artifacts
                /\ LastCall.resolved = <<>>
                /\ LastCall.error = NoError
           ELSE /\ Len(LastCall.reads) = LastCall.failedRead
                /\ Outcome(LastCall) = Outcome(PackageLoadAll(This, Constructed))

C18_Witness ==
    /\ AfterLazyLoadAll
    /\ LastCall.failedRead = 3
    /\ Len(LastCall.resolved) = 2
    /\ LastCall.error = NoError

\* ---------------------------------------------------------------- C19
\* a lazy loadAll is being made and its four reads succeed
LazyLoadSucceeds ==
    /\ CallsLoadAll
    /\ loaderClass = LazyPackageDirectoryLoader
    /\ Last(log').failedRead = 0

\* C19: a successful lazy loadAll leaves nodeTypes, credentialTypes,
\* loadedNodes and nodesByCredential as they were, and empty when the loader
\* is fresh or was just reset: it changes known, types and isLazyLoaded only.
C19_LazyChangesKnownAndTypesOnly ==
    [][LazyLoadSucceeds
         => /\ UNCHANGED <<nodeTypes, credentialTypes, loadedNodes, nodesByCredential>>
            /\ (log = <<>> \/ Last(log).op = "reset")
                  => /\ nodeTypes' = EmptyObject
                     /\ credentialTypes' = EmptyObject
                     /\ loadedNodes' = <<>>
                     /\ nodesByCredential' = EmptyObject]_vars

\* ---------------------------------------------------------------- C20
\* the files an eager loadAll is given, in the order it processes them
Discovered == DiscoveredNodes \o DiscoveredCredentials

\* the call being made stops at a file the resolver fails on
StopsAtResolver ==
    /\ CallsLoadAll
    /\ Last(log').resolved # <<>>
    /\ FileSystem[Last(ResolvedFiles(Last(log')))].resolve # "ok"

\* the node files and the credential files among the first n discovered files
NodesAmong(n) ==
    SubSeq(DiscoveredNodes, 1, IF n < Len(DiscoveredNodes) THEN n ELSE Len(DiscoveredNodes))
CredentialsAmong(n) ==
    SubSeq(DiscoveredCredentials, 1,
           IF n < Len(DiscoveredNodes) THEN 0 ELSE n - Len(DiscoveredNodes))

\* the loader object after the first n discovered files have been loaded
LoadedFirst(n) ==
    loadCredentialFiles(This, loadNodeFiles(This, Current, NodesAmong(n)), CredentialsAmong(n))

\* C20: when the resolver fails on a file during an eager loadAll, the call
\* raises the class-not-found configuration error if the failure is a
\* TypeError and the failure itself otherwise; the class named is the one of
\* the file; the files processed are those up to the failing one, no later
\* one; and the registry holds what loading the files before it leaves.  A
\* call that raises no error met no failing file.
C20_ResolverFailures ==
    [][/\ StopsAtResolver =>
            /\ Last(log').error
                  = IF FileSystem[Last(ResolvedFiles(Last(log')))].resolve = "TypeError"
                    THEN ClassNotFound ELSE ResolverFailure
            /\ Last(Last(log').resolved).className
                  = ClassNameOf(Last(ResolvedFiles(Last(log'))))
            /\ ResolvedFiles(Last(log')) = SubSeq(Discovered, 1, Len(Last(log').resolved))
            /\ Registry(Current)' = Registry(LoadedFirst(Len(Last(log').resolved) - 1))
       /\ (CallsLoadAll /\ Last(log').error = NoError) =>
            \A i \in 1..Len(Discovered) : FileSystem[Discovered[i]].resolve = "ok"]_vars

C20_Witness ==
    /\ AfterLoadAll
    /\ LastCall.error = ClassNotFound
    /\ ResolvedFiles(LastCall) = <<Node1Path, Node5Path>>
    /\ DOMAIN nodeTypes = {"node1"}

\* ---------------------------------------------------------------- C21
\* the last call was a loadAll of an eager loader
AfterEagerLoadAll ==
    /\ loaderClass \in {CustomDirectoryLoader, PackageDirectoryLoader}
    /\ AfterLoadAll

\* the node files of the last call that were recorded and declare c, in the
\* order the call processed them
RecordedDeclaring(c) ==
    SelectSeq(ResolvedFiles(LastCall),
              LAMBDA f : /\ f \in Accepted
                         /\ FileSystem[f].resolve = "ok"
                         /\ executeSingleError(FileSystem[f].instance) = NoError
                         /\ c \in Range(getCredentialsForNode(FileSystem[f].instance)))

NamesOfFiles(files) == [i \in 1..Len(files) |-> NodeNameOf(files[i])]

\* the credential files the last call recorded
RecordedCredentialFiles ==
    {f \in Range(ResolvedFiles(LastCall)) \cap CredentialPaths :
        LastCall.error = NoError \/ f # Last(ResolvedFiles(LastCall))}

\* C21: in every eager loadAll call the node files are processed before the
\* credential files, one at a time in the order given, and the known-index
\* entry of every credential c the call records has as supportedNodes exactly
\* the nodes recorded in that call that declare c, and none when no recorded
\* node declares c.
C21_NodesBeforeCredentials ==
    AfterEagerLoadAll =>
        /\ ResolvedFiles(LastCall) = SubSeq(Discovered, 1, Len(LastCall.resolved))
        /\ \A f \in RecordedCredentialFiles :
              known.credentials[FileSystem[f].instance.name].supportedNodes
                  = IF RecordedDeclaring(FileSystem[f].instance.name) = <<>> THEN None
                    ELSE Some(NamesOfFiles(RecordedDeclaring(FileSystem[f].instance.name)))

\* ---------------------------------------------------------------- C22
\* C22: for the eager loaders, after any sequence of loadAll calls, completed
\* or aborted by an error, and reset calls, known.nodes, nodeTypes, loadedNodes
\* and types.nodes hold the same node names, and known.credentials and
\* credentialTypes the same credential names.
C22_ForwardStructuresAgree ==
    loaderClass \in {CustomDirectoryLoader, PackageDirectoryLoader} =>
        /\ DOMAIN known.nodes = DOMAIN nodeTypes
        /\ DOMAIN nodeTypes = NamesIn(loadedNodes)
        /\ NamesIn(loadedNodes) = NamesIn(types.nodes)
        /\ DOMAIN known.credentials = DOMAIN credentialTypes

\* a loadAll aborted by an error after it recorded a node, on a loader that
\* had been loaded and reset before
C22_Witness ==
    /\ AfterEagerLoadAll
    /\ Len(log) = 3
    /\ log[2].op = "reset"
    /\ LastCall.error # NoError
    /\ Len(LastCall.resolved) = 2
    /\ DOMAIN nodeTypes # {}

====
